---- MODULE Spec2Model ----
(***************************************************************************)
(* A model of the journal script (src/assets/index.js): the storage key,   *)
(* the rendered list, the notification, and the handlers saveEntry,        *)
(* deleteEntry, clearAllEntries, exportToJSON, importFromJSON and the      *)
(* DOMContentLoaded handler, with loadEntries' bootstrap fetch and the     *)
(* FileReader read as the two suspension points.                           *)
(*                                                                         *)
(* JavaScript values are tagged records [t, v]; a text (the value of the   *)
(* storage key, a file) is a sequence of JSON tokens [t, v]; a string is a *)
(* sequence of characters.  What the user types into the form is an input  *)
(* of saveEntry; the two inputs of the form, which clearForm empties, are   *)
(* no variables of the model.                                              *)
(***************************************************************************)
EXTENDS Integers, Sequences, FiniteSets, Bags, TLC

(***************************************************************************)
(* Bounds of the model.                                                    *)
(***************************************************************************)
\* The saveEntry calls that pass validation.
MaxSaves == 1
\* The flows suspended at a fetch or at a file read at one time (Spec); the
\* specification Overlap has room for one more.
MaxInFlight == 1
\* The count of started fetches stops here.
MaxFetches == 2

(***************************************************************************)
(* JavaScript values.                                                      *)
(***************************************************************************)
Undefined == [t |-> "undefined", v |-> <<>>]
Null == [t |-> "null", v |-> <<>>]
Num(n) == [t |-> "number", v |-> n]
Str(s) == [t |-> "string", v |-> s]
Arr(s) == [t |-> "array", v |-> s]
Obj(s) == [t |-> "object", v |-> s]

IsArray(x) == x.t = "array"

\* JavaScript's ToBoolean.
Truthy(x) ==
  CASE x.t = "undefined" -> FALSE
    [] x.t = "null" -> FALSE
    [] x.t = "number" -> x.v # 0
    [] x.t = "string" -> x.v # <<>>
    [] OTHER -> TRUE

\* typeof x === "object"
TypeofObject(x) == x.t \in {"null", "array", "object"}

\* x.key for a value that is not null or undefined: an own property of an
\* object, undefined otherwise.  An object is a sequence of <<key, value>>
\* pairs in insertion order, each key once.
Get(x, key) ==
  IF x.t = "object" /\ \E i \in 1..Len(x.v) : x.v[i][1] = key
    THEN x.v[CHOOSE i \in 1..Len(x.v) : x.v[i][1] = key][2]
    ELSE Undefined

\* a === b (objects and arrays of the model are never the same reference).
StrictEq(a, b) == a.t \in {"undefined", "null", "number", "string"} /\ a = b

(***************************************************************************)
(* JSON texts: sequences of tokens.                                        *)
(***************************************************************************)
P(c) == [t |-> "punct", v |-> <<c>>]
NullTok == [t |-> "null", v |-> <<"null">>]
StrTok(s) == [t |-> "string", v |-> s]

Digits == <<"0", "1", "2", "3", "4", "5", "6", "7", "8", "9">>

\* The decimal digits of a natural number, and back.
RECURSIVE NumStr(_)
NumStr(n) ==
  IF n < 10 THEN <<Digits[n + 1]>>
  ELSE NumStr(n \div 10) \o <<Digits[(n % 10) + 1]>>

DigitVal(c) == (CHOOSE i \in 1..10 : Digits[i] = c) - 1

RECURSIVE StrNum(_)
StrNum(s) ==
  IF Len(s) = 1 THEN DigitVal(s[1])
  ELSE 10 * StrNum(SubSeq(s, 1, Len(s) - 1)) + DigitVal(s[Len(s)])

NumTok(n) == [t |-> "number", v |-> NumStr(n)]

RECURSIVE Spaces(_)
Spaces(n) == IF n = 0 THEN <<>> ELSE <<" ">> \o Spaces(n - 1)

\* The white space JSON.stringify writes with a gap: a line break and n
\* spaces of indentation.
Ws(n) == [t |-> "space", v |-> <<"\n">> \o Spaces(n)]
\* The space it writes after a colon.
Sp == [t |-> "space", v |-> <<" ">>]

RECURSIVE Stringify(_, _, _)
RECURSIVE StringifyElems(_, _, _, _)
RECURSIVE StringifyMembers(_, _, _, _)

\* JSON.stringify(x, null, gap) at nesting depth d; gap = 0 is JSON.stringify(x).
Stringify(x, gap, d) ==
  CASE x.t = "null" -> <<NullTok>>
    [] x.t = "number" -> <<NumTok(x.v)>>
    [] x.t = "string" -> <<StrTok(x.v)>>
    [] x.t = "array" ->
         IF x.v = <<>> THEN <<P("["), P("]")>>
         ELSE <<P("[")>> \o StringifyElems(x.v, gap, d + 1, 1)
              \o (IF gap > 0 THEN <<Ws(gap * d)>> ELSE <<>>) \o <<P("]")>>
    [] x.t = "object" ->
         IF x.v = <<>> THEN <<P("{"), P("}")>>
         ELSE <<P("{")>> \o StringifyMembers(x.v, gap, d + 1, 1)
              \o (IF gap > 0 THEN <<Ws(gap * d)>> ELSE <<>>) \o <<P("}")>>

StringifyElems(s, gap, d, i) ==
  IF i > Len(s) THEN <<>>
  ELSE (IF gap > 0 THEN <<Ws(gap * d)>> ELSE <<>>)
       \o Stringify(s[i], gap, d)
       \o (IF i < Len(s) THEN <<P(",")>> ELSE <<>>)
       \o StringifyElems(s, gap, d, i + 1)

StringifyMembers(s, gap, d, i) ==
  IF i > Len(s) THEN <<>>
  ELSE (IF gap > 0 THEN <<Ws(gap * d)>> ELSE <<>>)
       \o <<StrTok(s[i][1]), P(":")>>
       \o (IF gap > 0 THEN <<Sp>> ELSE <<>>)
       \o Stringify(s[i][2], gap, d)
       \o (IF i < Len(s) THEN <<P(",")>> ELSE <<>>)
       \o StringifyMembers(s, gap, d, i + 1)

\* The result of a parse: the value and the position after it, or a failure.
Fail == [ok |-> FALSE, val |-> Undefined, next |-> 0]
Ok(x, n) == [ok |-> TRUE, val |-> x, next |-> n]

Is(ts, i, c) == i <= Len(ts) /\ ts[i].t = "punct" /\ ts[i].v = <<c>>

RECURSIVE SkipWs(_, _)
SkipWs(ts, i) ==
  IF i <= Len(ts) /\ ts[i].t = "space" THEN SkipWs(ts, i + 1) ELSE i

\* obj[key] = x: a repeated key keeps its place and takes the later value.
SetMember(s, key, x) ==
  IF \E i \in 1..Len(s) : s[i][1] = key
    THEN [i \in 1..Len(s) |-> IF s[i][1] = key THEN <<key, x>> ELSE s[i]]
    ELSE Append(s, <<key, x>>)

RECURSIVE ParseValue(_, _)
RECURSIVE ParseElems(_, _, _)
RECURSIVE ParseMembers(_, _, _)

ParseValue(ts, i0) ==
  LET i == SkipWs(ts, i0) IN
  IF i > Len(ts) THEN Fail
  ELSE CASE ts[i].t = "null" -> Ok(Null, i + 1)
         [] ts[i].t = "number" -> Ok(Num(StrNum(ts[i].v)), i + 1)
         [] ts[i].t = "string" -> Ok(Str(ts[i].v), i + 1)
         [] Is(ts, i, "[") ->
              LET j == SkipWs(ts, i + 1) IN
              IF Is(ts, j, "]") THEN Ok(Arr(<<>>), j + 1)
              ELSE ParseElems(ts, j, <<>>)
         [] Is(ts, i, "{") ->
              LET j == SkipWs(ts, i + 1) IN
              IF Is(ts, j, "}") THEN Ok(Obj(<<>>), j + 1)
              ELSE ParseMembers(ts, j, <<>>)
         [] OTHER -> Fail

ParseElems(ts, i, acc) ==
  LET r == ParseValue(ts, i) IN
  IF ~r.ok THEN Fail
  ELSE LET j == SkipWs(ts, r.next) IN
       IF Is(ts, j, ",") THEN ParseElems(ts, j + 1, Append(acc, r.val))
       ELSE IF Is(ts, j, "]") THEN Ok(Arr(Append(acc, r.val)), j + 1)
       ELSE Fail

ParseMembers(ts, i0, acc) ==
  LET i == SkipWs(ts, i0) IN
  IF ~(i <= Len(ts) /\ ts[i].t = "string") THEN Fail
  ELSE LET c == SkipWs(ts, i + 1) IN
       IF ~Is(ts, c, ":") THEN Fail
       ELSE LET r == ParseValue(ts, c + 1) IN
            IF ~r.ok THEN Fail
            ELSE LET j == SkipWs(ts, r.next)
                     acc2 == SetMember(acc, ts[i].v, r.val)
                 IN IF Is(ts, j, ",") THEN ParseMembers(ts, j + 1, acc2)
                    ELSE IF Is(ts, j, "}") THEN Ok(Obj(acc2), j + 1)
                    ELSE Fail

\* JSON.parse(text): [ok, val]; ok = FALSE is the SyntaxError it throws.
JSONParse(ts) ==
  LET r == ParseValue(ts, 1) IN
  IF r.ok /\ SkipWs(ts, r.next) = Len(ts) + 1
    THEN [ok |-> TRUE, val |-> r.val]
    ELSE [ok |-> FALSE, val |-> Undefined]

(***************************************************************************)
(* Strings and the DOM.                                                    *)
(***************************************************************************)
IsSpace(c) == c \in {" ", "\n"}

\* String.prototype.trim
RECURSIVE TrimStart(_)
TrimStart(s) ==
  IF s # <<>> /\ IsSpace(Head(s)) THEN TrimStart(Tail(s)) ELSE s

RECURSIVE TrimEnd(_)
TrimEnd(s) ==
  IF s # <<>> /\ IsSpace(s[Len(s)]) THEN TrimEnd(SubSeq(s, 1, Len(s) - 1)) ELSE s

Trim(s) == TrimEnd(TrimStart(s))

\* String(x), as a template literal converts an interpolated value.
RECURSIVE ToStr(_)
RECURSIVE JoinElems(_, _)
ToStr(x) ==
  CASE x.t = "undefined" -> <<"undefined">>
    [] x.t = "null" -> <<"null">>
    [] x.t = "number" -> NumStr(x.v)
    [] x.t = "string" -> x.v
    [] x.t = "array" -> JoinElems(x.v, 1)
    [] x.t = "object" -> <<"[object Object]">>

JoinElems(s, i) ==
  IF i > Len(s) THEN <<>>
  ELSE (IF s[i].t \in {"undefined", "null"} THEN <<>> ELSE ToStr(s[i]))
       \o (IF i < Len(s) THEN <<",">> ELSE <<>>)
       \o JoinElems(s, i + 1)

\* escapeHtml(text): textContent takes null and undefined as the empty
\* string, and innerHTML escapes &, < and >.
RECURSIVE EscapeChars(_)
EscapeChars(s) ==
  IF s = <<>> THEN <<>>
  ELSE (CASE Head(s) = "&" -> <<"&amp;">>
          [] Head(s) = "<" -> <<"&lt;">>
          [] Head(s) = ">" -> <<"&gt;">>
          [] OTHER -> <<Head(s)>>) \o EscapeChars(Tail(s))

escapeHtml(x) ==
  IF x.t \in {"undefined", "null"} THEN <<>> ELSE EscapeChars(ToStr(x))

\* .replace(/\n/g, "<br>")
RECURSIVE ReplaceNewlines(_)
ReplaceNewlines(s) ==
  IF s = <<>> THEN <<>>
  ELSE (IF Head(s) = "\n" THEN <<"<br>">> ELSE <<Head(s)>>)
       \o ReplaceNewlines(Tail(s))

\* x.length
Length(x) ==
  IF x.t \in {"array", "string"} THEN Num(Len(x.v)) ELSE Undefined

\* Whether reading a property of x throws a TypeError.
NoProperties(x) == x.t \in {"undefined", "null"}

\* The text updateEntryCount writes.
CountText(entries) ==
  ToStr(Length(entries)) \o <<" ">>
    \o (IF StrictEq(Length(entries), Num(1)) THEN <<"entry">> ELSE <<"entries">>)

\* One entry's card, as the template of renderEntries builds it.
Card(entry) ==
  [id |-> ToStr(Get(entry, <<"id">>)),
   title |-> escapeHtml(Get(entry, <<"title">>)),
   date |-> ToStr(Get(entry, <<"date">>)),
   content |-> ReplaceNewlines(escapeHtml(Get(entry, <<"content">>)))]

EmptyState == [placeholder |-> TRUE, cards |-> <<>>]

\* renderEntries(entries) for entries that are not null: the count label and
\* the container it leaves, from those it found.  A TypeError (entries is no
\* array, an element has no properties) ends it where it is thrown.
Render(entries, label, box) ==
  IF NoProperties(entries) THEN [label |-> label, box |-> box, threw |-> TRUE]
  ELSE IF StrictEq(Length(entries), Num(0))
    THEN [label |-> CountText(entries), box |-> EmptyState, threw |-> FALSE]
  ELSE IF ~IsArray(entries) \/ \E i \in 1..Len(entries.v) : NoProperties(entries.v[i])
    THEN [label |-> CountText(entries), box |-> box, threw |-> TRUE]
  ELSE [label |-> CountText(entries),
        box |-> [placeholder |-> FALSE,
                 cards |-> [i \in 1..Len(entries.v) |-> Card(entries.v[i])]],
        threw |-> FALSE]

(***************************************************************************)
(* The program's state.                                                    *)
(***************************************************************************)
VARIABLES
  storage,       \* localStorage's STORAGE_KEY: [present, text]
  defaultFile,   \* what the server answers for DEFAULT_JSON: [ok, text]
  loaded,        \* DOMContentLoaded has fired
  countLabel,    \* the text of #entryCount
  container,     \* the content of #entries: [placeholder, cards]
  notification,  \* the notification the last step showed: [type, message]
  inFlight,      \* the flows suspended at a fetch or at a file read: a bag
  download,      \* the file the last step wrote for download: [present, text]
  now,           \* what Date.now() reads
  fetches,       \* the fetches of DEFAULT_JSON started since the page loaded
  saves,         \* the saveEntry calls that passed validation
  lastLoad       \* what loadEntries returned in the last step, back from a fetch

vars == <<storage, defaultFile, loaded, countLabel, container, notification, inFlight, download, now, fetches, saves,
          lastLoad>>

Absent == [present |-> FALSE, text |-> <<>>]
Present(text) == [present |-> TRUE, text |-> text]

NoNotification == [type |-> "none", message |-> ""]
Notification(message, type) == [type |-> type, message |-> message]

NoLoad == [how |-> "none", result |-> Undefined]

Flow(kind, arg, text) == [kind |-> kind, arg |-> arg, text |-> text]

\* JSON.stringify(entries, null, 2) in exportToJSON.
ExportGap == 2

\* new Date().toLocaleDateString("en-US", ...) at time t.
FormatDate(t) == <<"November ">> \o NumStr(t) \o <<", 2026">>

\* The entry saveEntry builds.
NewEntry(title, content, t) ==
  Obj(<< << <<"id">>, Num(t) >>,
         << <<"date">>, Str(FormatDate(t)) >>,
         << <<"title">>, Str(title) >>,
         << <<"content">>, Str(content) >> >>)

(***************************************************************************)
(* The inputs the model draws from.                                        *)
(***************************************************************************)
\* What the user types into the form: <<title, content>>.
FormInputs ==
  { << <<" ", "a", " ">>, <<"b", "<", "\n", "c">> >>,
    << <<" ">>, <<"b">> >>,
    << <<"a">>, <<>> >> }

\* An entry as a file may hold it.
FileEntry(id, title) ==
  Obj(<< << <<"id">>, Num(id) >>,
         << <<"date">>, Str(<<"January 1, 2020">>) >>,
         << <<"title">>, Str(title) >>,
         << <<"content">>, Str(<<"x">>) >> >>)

Unparseable == <<P("["), P("{")>>

\* The answers of the server for DEFAULT_JSON: no such file, or a file that
\* is no JSON; that is an array of two entries under one id; an array with
\* an entry whose title is empty; an entry that is not in an array.
NoDefaultFile == [ok |-> FALSE, text |-> <<>>]

DefaultFiles ==
  { [ok |-> TRUE, text |-> Unparseable],
    [ok |-> TRUE, text |-> Stringify(Arr(<<FileEntry(0, <<"d">>), FileEntry(0, <<"f">>)>>),
                                     ExportGap, 0)],
    [ok |-> TRUE, text |-> Stringify(Arr(<<FileEntry(0, <<>>)>>), ExportGap, 0)],
    [ok |-> TRUE, text |-> Stringify(FileEntry(0, <<"d">>), ExportGap, 0)] }

\* The files the user picks for an import, besides the file just exported:
\* no JSON; no array; an array with an entry that has no date.
ImportFiles ==
  { Unparseable,
    Stringify(FileEntry(0, <<"i">>), 0, 0),
    Stringify(Arr(<<Obj(<< << <<"id">>, Num(0) >>, << <<"title">>, Str(<<"i">>) >>,
                           << <<"content">>, Str(<<"x">>) >> >>)>>), 0, 0) }

\* The ids deleteEntry is called with.
DeleteIds == { Num(0), Num(1) }

(***************************************************************************)
(* loadEntries.                                                            *)
(***************************************************************************)
\* if (stored)
HoldsData(st) == st.present /\ st.text # <<>>

\* What a fetch of DEFAULT_JSON that went out settles to: the data of the
\* file, or the failure that loadEntries catches (the request fails, the
\* answer is not ok, the body is no JSON).
FetchResult(reaches) ==
  IF reaches /\ defaultFile.ok THEN JSONParse(defaultFile.text)
  ELSE [ok |-> FALSE, val |-> Undefined]

\* LoadFetched with a catch that seeds the storage key with an empty list.
LoadFetchedSeedsEmpty(reaches) ==
  LET r == FetchResult(reaches) IN
  IF r.ok THEN [how |-> "fetched", result |-> r.val,
                storage |-> Present(Stringify(r.val, 0, 0))]
  ELSE [how |-> "fallback", result |-> Arr(<<>>),
        storage |-> Present(Stringify(Arr(<<>>), 0, 0))]

\* loadEntries from its fetch on: what it returns and what it leaves under
\* the storage key.
LoadFetched(reaches) ==
  LET r == FetchResult(reaches) IN
  IF r.ok THEN [how |-> "fetched", result |-> r.val,
                storage |-> Present(Stringify(r.val, 0, 0))]
  ELSE [how |-> "fallback", result |-> Arr(<<>>), storage |-> storage]

\* loadEntries when the key holds data.
LoadStored ==
  LET r == JSONParse(storage.text) IN
  [how |-> IF r.ok THEN "stored" ELSE "threw", result |-> r.val,
   storage |-> storage]

(***************************************************************************)
(* The handlers from the return of loadEntries on.                         *)
(***************************************************************************)
\* renderEntries() after its loadEntries.
RenderLoaded(l) ==
  LET r == Render(l.result, countLabel, container) IN
  /\ storage' = l.storage
  /\ countLabel' = r.label
  /\ container' = r.box
  /\ notification' = NoNotification

\* saveEntry after its loadEntries: unshift, saveToStorage, clearForm,
\* showNotification, renderEntries.
SaveLoaded(newEntry, l) ==
  IF l.how = "threw" \/ ~IsArray(l.result)
    THEN /\ storage' = l.storage
         /\ notification' = NoNotification
         /\ UNCHANGED <<countLabel, container>>
    ELSE LET entries == Arr(<<newEntry>> \o l.result.v)
             r == Render(entries, countLabel, container)
         IN /\ storage' = Present(Stringify(entries, 0, 0))
            /\ notification' = Notification("Entry saved successfully!", "success")
            /\ countLabel' = r.label
            /\ container' = r.box

\* entries.filter((entry) => entry.id !== id)
Filter(entries, id) ==
  Arr(SelectSeq(entries.v, LAMBDA entry : ~StrictEq(Get(entry, <<"id">>), id)))

\* deleteEntry's callback on loadEntries' result.
DeleteLoaded(id, l) ==
  IF \/ l.how = "threw"
     \/ ~IsArray(l.result)
     \/ \E i \in 1..Len(l.result.v) : NoProperties(l.result.v[i])
    THEN /\ storage' = l.storage
         /\ notification' = NoNotification
         /\ UNCHANGED <<countLabel, container>>
    ELSE LET filteredEntries == Filter(l.result, id)
             r == Render(filteredEntries, countLabel, container)
         IN /\ storage' = Present(Stringify(filteredEntries, 0, 0))
            /\ countLabel' = r.label
            /\ container' = r.box
            /\ notification' = Notification("Entry deleted", "info")

\* A handler that called loadEntries, from loadEntries' return on.
Continue(flow, l) ==
  CASE flow.kind = "render" -> RenderLoaded(l)
    [] flow.kind = "save" -> SaveLoaded(flow.arg, l)
    [] flow.kind = "delete" -> DeleteLoaded(flow.arg, l)

\* A handler at its call of loadEntries: with data under the key it goes on
\* at once, without it it waits for the fetch it starts.
CallLoadEntries(flow) ==
  IF HoldsData(storage)
    THEN /\ Continue(flow, LoadStored)
         /\ UNCHANGED <<inFlight, fetches>>
    ELSE /\ inFlight' = inFlight (+) SetToBag({flow})
         /\ fetches' = IF fetches < MaxFetches THEN fetches + 1 ELSE fetches
         /\ notification' = NoNotification
         /\ UNCHANGED <<storage, countLabel, container>>

(***************************************************************************)
(* The initial state: the page before DOMContentLoaded, on first use or    *)
(* over what an earlier session left under the storage key.                *)
(***************************************************************************)
StoredBefore == Present(Stringify(Arr(<<NewEntry(<<"a">>, <<"e">>, 0)>>), 0, 0))

NoCards == [placeholder |-> FALSE, cards |-> <<>>]

Init ==
  /\ \/ storage = Absent /\ defaultFile \in DefaultFiles
     \/ storage = StoredBefore /\ defaultFile = NoDefaultFile
  /\ loaded = FALSE
  /\ countLabel = <<>>
  /\ container = NoCards
  /\ notification = NoNotification
  /\ inFlight = EmptyBag
  /\ download = Absent
  /\ now = 1
  /\ fetches = 0
  /\ saves = 0
  /\ lastLoad = NoLoad

(***************************************************************************)
(* The handlers.                                                           *)
(***************************************************************************)
\* The DOMContentLoaded handler: renderEntries().
DOMContentLoaded ==
  /\ ~loaded
  /\ loaded' = TRUE
  /\ CallLoadEntries(Flow("render", Undefined, <<>>))
  /\ lastLoad' = NoLoad
  /\ download' = Absent
  /\ UNCHANGED <<defaultFile, now, saves>>

\* Blank with "and" for "or".
BlankBoth(title, content) == title = <<>> /\ content = <<>>

\* if (!title || !content)
Blank(title, content) == title = <<>> \/ content = <<>>

\* saveEntry() on what the user typed into the form: <<title, content>>.
\* Before the next call the clock moves on (tick) or not; it is followed
\* only as long as a call can read it.
SaveEntry(typed, tick) ==
  /\ loaded
  /\ LET title == Trim(typed[1])
         content == Trim(typed[2])
     IN IF Blank(title, content)
          THEN /\ notification' =
                    Notification("Please fill in both title and content", "error")
               /\ UNCHANGED <<storage, countLabel, container, inFlight,
                              fetches, now, saves>>
          ELSE /\ saves < MaxSaves
               /\ saves' = saves + 1
               /\ tick => saves + 1 < MaxSaves
               /\ now' = IF tick THEN now + 1 ELSE now
               /\ CallLoadEntries(Flow("save", NewEntry(title, content, now), <<>>))
  /\ lastLoad' = NoLoad
  /\ download' = Absent
  /\ UNCHANGED <<defaultFile, loaded>>

\* deleteEntry(id), with the user's answer to confirm().
DeleteEntry(id, confirmed) ==
  /\ loaded
  /\ IF confirmed
       THEN CallLoadEntries(Flow("delete", id, <<>>))
       ELSE /\ notification' = NoNotification
            /\ UNCHANGED <<storage, countLabel,
                           container, inFlight, fetches>>
  /\ lastLoad' = NoLoad
  /\ download' = Absent
  /\ UNCHANGED <<defaultFile, loaded, now, saves>>

\* ClearAllEntries with saveToStorage([]) for removeItem.
ClearAllEntriesKeepsKey(confirmed) ==
  /\ loaded
  /\ IF confirmed
       THEN LET r == Render(Arr(<<>>), countLabel, container) IN
            /\ storage' = Present(Stringify(Arr(<<>>), 0, 0))
            /\ countLabel' = r.label
            /\ container' = r.box
            /\ notification' = Notification("All entries cleared", "info")
       ELSE /\ notification' = NoNotification
            /\ UNCHANGED <<storage, countLabel, container>>
  /\ lastLoad' = NoLoad
  /\ download' = Absent
  /\ UNCHANGED <<defaultFile, loaded, inFlight,
                 now, fetches, saves>>

\* clearAllEntries(), with the user's answer to confirm().
ClearAllEntries(confirmed) ==
  /\ loaded
  /\ IF confirmed
       THEN LET r == Render(Arr(<<>>), countLabel, container) IN
            /\ storage' = Absent
            /\ countLabel' = r.label
            /\ container' = r.box
            /\ notification' = Notification("All entries cleared", "info")
       ELSE /\ notification' = NoNotification
            /\ UNCHANGED <<storage, countLabel, container>>
  /\ lastLoad' = NoLoad
  /\ download' = Absent
  /\ UNCHANGED <<defaultFile, loaded, inFlight,
                 now, fetches, saves>>

\* JSON.parse(localStorage.getItem(STORAGE_KEY)) || []
ExportEntries ==
  LET r == IF storage.present THEN JSONParse(storage.text)
           ELSE [ok |-> TRUE, val |-> Null]
  IN [ok |-> r.ok, val |-> IF Truthy(r.val) THEN r.val ELSE Arr(<<>>)]

\* exportToJSON()
ExportToJSON ==
  /\ loaded
  /\ LET e == ExportEntries IN
     IF ~e.ok
       THEN /\ notification' = NoNotification
            /\ download' = Absent
     ELSE IF StrictEq(Length(e.val), Num(0))
       THEN /\ notification' = Notification("No entries to export!", "error")
            /\ download' = Absent
     ELSE /\ download' = Present(Stringify(e.val, ExportGap, 0))
          /\ notification' = Notification("Journal exported successfully!", "success")
  /\ lastLoad' = NoLoad
  /\ UNCHANGED <<storage, defaultFile, loaded,
                 countLabel, container, inFlight, now, fetches, saves>>

\* The files the user can pick: with the file just exported.
Files == ImportFiles \cup (IF download.present THEN {download.text} ELSE {})

\* importFromJSON(event) with a file picked: the read starts.
ImportFromJSON(file) ==
  /\ loaded
  /\ inFlight' = inFlight (+) SetToBag({Flow("import", Undefined, file)})
  /\ notification' = NoNotification
  /\ lastLoad' = NoLoad
  /\ download' = Absent
  /\ UNCHANGED <<storage, defaultFile, loaded,
                 countLabel, container, now, fetches, saves>>

\* ValidEntry without the check of the date.
ValidEntryNoDate(entry) ==
  /\ Truthy(entry)
  /\ TypeofObject(entry)
  /\ Truthy(Get(entry, <<"title">>))
  /\ Truthy(Get(entry, <<"content">>))

\* The check of importFromJSON on one element of the file's array.
ValidEntry(entry) ==
  /\ Truthy(entry)
  /\ TypeofObject(entry)
  /\ Truthy(Get(entry, <<"title">>))
  /\ Truthy(Get(entry, <<"content">>))
  /\ Truthy(Get(entry, <<"date">>))

\* Whether reader.onload takes the text of the file.
Importable(text) ==
  LET r == JSONParse(text) IN
  /\ r.ok
  /\ IsArray(r.val)
  /\ \A i \in 1..Len(r.val.v) : ValidEntry(r.val.v[i])

\* reader.onload of a flow in flight.
ReaderOnload(flow) ==
  /\ flow.kind = "import"
  /\ inFlight' = inFlight (-) SetToBag({flow})
  /\ IF Importable(flow.text)
       THEN LET data == JSONParse(flow.text).val
                r == Render(data, countLabel, container)
            IN /\ storage' = Present(Stringify(data, 0, 0))
               /\ countLabel' = r.label
               /\ container' = r.box
               /\ notification' = Notification("Journal imported successfully!", "success")
       ELSE /\ notification' = Notification("Invalid JSON file format", "error")
            /\ UNCHANGED <<storage, countLabel, container>>
  /\ lastLoad' = NoLoad
  /\ download' = Absent
  /\ UNCHANGED <<defaultFile, loaded, now, fetches,
                 saves>>

\* The fetch of a flow in flight settles, having reached the server or
\* not, and the flow runs to its end.
FetchSettles(flow, reaches) ==
  /\ flow.kind # "import"
  /\ inFlight' = inFlight (-) SetToBag({flow})
  /\ LET l == LoadFetched(reaches) IN
     /\ Continue(flow, l)
     /\ lastLoad' = [how |-> l.how, result |-> l.result]
  /\ download' = Absent
  /\ UNCHANGED <<defaultFile, loaded, now, fetches, saves>>

\* Whether the flows in flight after the step are at most room.
Fits(room) == BagCardinality(inFlight') <= room

\* A step of the page, with room for so many flows in flight.
Step(room) ==
  \/ DOMContentLoaded /\ Fits(room)
  \/ \E typed \in FormInputs, tick \in BOOLEAN : SaveEntry(typed, tick) /\ Fits(room)
  \/ \E id \in DeleteIds, confirmed \in BOOLEAN : DeleteEntry(id, confirmed) /\ Fits(room)
  \/ \E confirmed \in BOOLEAN : ClearAllEntries(confirmed)
  \/ ExportToJSON
  \/ \E file \in Files : ImportFromJSON(file) /\ Fits(room)
  \/ \E flow \in BagToSet(inFlight) : ReaderOnload(flow)
  \/ \E flow \in BagToSet(inFlight), reaches \in BOOLEAN : FetchSettles(flow, reaches)

Next == Step(MaxInFlight)

Spec == Init /\ [][Next]_vars

\* The same page with room for one more flow in flight.
NextOverlap == Step(MaxInFlight + 1)

Overlap == Init /\ [][NextOverlap]_vars

(***************************************************************************)
(* The properties.                                                         *)
(***************************************************************************)
\* The entries under the storage key; without the key, none.
ListOf(st) == IF st.present THEN JSONParse(st.text).val ELSE Arr(<<>>)

HoldsList(st) == ~st.present \/ (JSONParse(st.text).ok /\ IsArray(ListOf(st)))

Saved == Notification("Entry saved successfully!", "success")
Deleted == Notification("Entry deleted", "info")
Cleared == Notification("All entries cleared", "info")
Exported == Notification("Journal exported successfully!", "success")
Imported == Notification("Journal imported successfully!", "success")
ImportRefused == Notification("Invalid JSON file format", "error")
SaveRefused == Notification("Please fill in both title and content", "error")

\* s without its i-th element.
Without(s, i) == SubSeq(s, 1, i - 1) \o SubSeq(s, i + 1, Len(s))

\* C1: from every state in which the storage key holds a list or is absent,
\* a saveEntry call with a title and a content that are not empty after
\* trimming, once it has shown its success notification, has made the list
\* one entry longer: the new entry first, the entries listed before after
\* it, in their order.
C1_SaveAddsExactlyOne ==
  [][(notification' = Saved /\ HoldsList(storage))
       => /\ HoldsList(storage')
          /\ ListOf(storage').v # <<>>
          /\ Tail(ListOf(storage').v) = ListOf(storage).v]_vars

\* C2: the text of a file, as the claim says it is refused: it is no JSON, or
\* no array, or an array with an element that is not a non-null object with
\* truthy title, content and date.
Refusable(text) ==
  LET r == JSONParse(text) IN
  \/ ~r.ok
  \/ r.val.t # "array"
  \/ \E i \in 1..Len(r.val.v) :
       LET e == r.val.v[i] IN
       \/ e.t # "object"
       \/ \E key \in { <<"title">>, <<"content">>, <<"date">> } :
            \/ \A j \in 1..Len(e.v) : e.v[j][1] # key
            \/ \E j \in 1..Len(e.v) :
                 /\ e.v[j][1] = key
                 /\ e.v[j][2] \in { Null, Num(0), Str(<<>>) }

\* C2: when the read of such a file ends, the page shows an error
\* notification and the storage key is what it was: present with the same
\* text, or absent.
C2_BadImportRefused ==
  [][\A flow \in BagToSet(inFlight) :
       (/\ flow.kind = "import"
        /\ inFlight' = inFlight (-) SetToBag({flow})
        /\ Refusable(flow.text))
         => (notification'.type = "error" /\ storage' = storage)]_vars

\* C2, witness: a refused import, with the storage key present.
C2_Witness == notification = ImportRefused /\ storage.present

\* C3: the file exportToJSON has just written from a stored list is one
\* importFromJSON takes, and importing it leaves under the storage key the
\* list that was exported, field for field and in the same order.
C3_ExportImportRoundTrip ==
  (download.present /\ HoldsList(storage))
    => /\ Importable(download.text)
       /\ Present(Stringify(JSONParse(download.text).val, 0, 0)) = storage

\* C4: a confirmed deleteEntry(id) on a stored list leaves it as it is (no
\* entry has the id) or removes exactly one entry and keeps every other
\* entry, in order.
C4_DeleteRemovesOne ==
  [][/\ (notification' = Deleted /\ storage.present /\ HoldsList(storage))
       => (/\ HoldsList(storage')
          /\ \/ ListOf(storage') = ListOf(storage)
             \/ \E i \in 1..Len(ListOf(storage).v) :
                  ListOf(storage').v = Without(ListOf(storage).v, i))
     /\ (\E id \in DeleteIds : DeleteEntry(id, FALSE))
          => UNCHANGED <<storage, container, countLabel>>]_vars

\* A string of white space only: empty after trimming.
OnlySpace(s) == \A i \in 1..Len(s) : s[i] \in {" ", "\n"}

\* C5: a saveEntry call whose title or content is empty after trimming
\* shows an error notification and leaves the storage key and the rendered
\* list as they are; it starts no fetch.
C5_BlankSaveRefused ==
  [][\A typed \in FormInputs :
       (/\ OnlySpace(typed[1]) \/ OnlySpace(typed[2])
        /\ \E tick \in BOOLEAN : SaveEntry(typed, tick))
         => /\ notification'.type = "error"
            /\ UNCHANGED <<storage, countLabel, container, inFlight, fetches>>]_vars

\* C5, witness: a refused save, over a stored list.
C5_Witness ==
  notification = SaveRefused /\ storage.present /\ container.cards # <<>>

\* The flow of the initial renderEntries().
InitialRender == Flow("render", Undefined, <<>>)

\* C6: the initial load that found no storage key, when its fetch settles:
\* with a default dataset that is reached, loadEntries has stored the
\* dataset under the key and returned it; with none reached or with one
\* that is no JSON, it has returned an empty list and written nothing.
C6_InitialLoad ==
  [][LET file == JSONParse(defaultFile.text)
         Settles == /\ BagIn(InitialRender, inFlight)
                    /\ inFlight' = inFlight (-) SetToBag({InitialRender})
         Seeded == /\ lastLoad'.result = file.val
                   /\ storage' = Present(Stringify(file.val, 0, 0))
         Empty == /\ lastLoad'.result = Arr(<<>>)
                  /\ storage' = storage
                  /\ container' = EmptyState
                  /\ countLabel' = <<"0", " ", "entries">>
     IN /\ Settles => (Seeded \/ Empty)
        /\ (/\ Settles
            /\ defaultFile.ok
            /\ file.ok
            /\ FetchSettles(InitialRender, TRUE)) => Seeded
        /\ (Settles /\ ~(defaultFile.ok /\ file.ok)) => Empty]_vars

\* C6, witness: the initial load has seeded the storage key with the
\* default dataset and rendered it.
C6_Witness ==
  /\ lastLoad.how = "fetched"
  /\ IsArray(lastLoad.result)
  /\ storage = Present(Stringify(lastLoad.result, 0, 0))
  /\ container = Render(lastLoad.result, <<>>, NoCards).box
  /\ container.cards # <<>>

\* C7: in one page session the default dataset is fetched at most once, and
\* a fetch starts only when the storage key holds no data.
C7_FetchedOnce ==
  [][/\ fetches' <= 1
     /\ (\E flow \in BagToSet(inFlight') :
           flow.kind # "import" /\ CopiesIn(flow, inFlight') > CopiesIn(flow, inFlight))
          => ~HoldsData(storage)]_vars

ZeroEntries == <<"0", " ", "entries">>

\* C8: a confirmed clearAllEntries removes the storage key and leaves the
\* rendered list empty, the count label at zero entries; a declined one
\* leaves the key, the list and the label as they are.
C8_ClearAll ==
  [][/\ notification' = Cleared
          => (storage' = Absent /\ container' = EmptyState /\ countLabel' = ZeroEntries)
     /\ ClearAllEntries(FALSE) => UNCHANGED <<storage, container, countLabel>>]_vars

\* C8, witness: all entries cleared, with a flow still in flight.
C8_Witness == notification = Cleared /\ inFlight # EmptyBag

Elements(s) == { s[i] : i \in 1..Len(s) }

\* C9: the entries under the storage key stay there until a delete, a
\* clear-all or an import of the user removes them: no other step, and no
\* load coming back from a fetch it started earlier, takes one away.
C9_WritesStay ==
  [][(HoldsList(storage) /\ notification' \notin {Deleted, Cleared, Imported})
       => \A entry \in Elements(ListOf(storage).v) :
            /\ HoldsList(storage')
            /\ entry \in Elements(ListOf(storage').v)]_vars

\* C10: with no fetch and no file read pending, the rendered list and the
\* count label are those of the list under the storage key, when the key is
\* present.
C10_RenderedIsStored ==
  (loaded /\ inFlight = EmptyBag /\ storage.present /\ HoldsList(storage))
    => /\ container = Render(ListOf(storage), <<>>, NoCards).box
       /\ countLabel = CountText(ListOf(storage))

====
